---- MODULE Spec2Model ----
(***************************************************************************)
(* Model of the lumna-server HTTP handlers (src/main.ts, second server     *)
(* definition, lines 301-716): POST /upload, POST /audios/:id/play,        *)
(* GET /audios, POST/PUT/DELETE /albums.  Each handler is an async         *)
(* function; it runs atomically between two awaits, and handlers of        *)
(* different requests interleave at the awaits.  One action models one     *)
(* such atomic segment of one handler.                                     *)
(* The metadata store answers every query; the failures modelled are the   *)
(* ones the code or the schema decides (validation, a document deleted     *)
(* under a pending save) and the failures of the two writes of an upload.  *)
(***************************************************************************)
EXTENDS Integers, Sequences, FiniteSets

\* ------------------------------------------------------------------ bounds
\* Requests of each route received in one behaviour.
MaxUploads == 2
MaxPlays == 3
MaxAlbumReqs == 2
\* Overlapping PUT /albums/:id requests.
MaxUpdates == 2
\* Last value of the millisecond clock (Date.now()).
MaxTime == 1

\* ------------------------------------------------------------------ values
\* A form field, header or JSON member that was not sent (JS undefined).
Undefined == "undefined"
\* JS truthiness of a string-valued input: undefined and '' are falsy.
Truthy(v) == v # Undefined /\ v # ""
\* A date input that was not sent; sent dates are the instant they denote.
NoDate == -1

\* enum AudioCategory
AudioCategory == {"Rock", "Pop", "Jazz", "Classical", "Hip-hop", "Electronic", "Other"}
CategoryOther == "Other"

\* Track ids a client may name: ids of tracks that exist or do not exist yet.
TrackIds == 1..MaxUploads
\* Album ids a client may name.
AlbumIds == 1..MaxAlbumReqs

VARIABLES
    now,      \* the clock read by Date.now() and new Date()
    blobs,    \* the object store: storage key -> request that wrote the bytes
    audios,   \* the Audio collection: sequence of documents, _id = position
    albums,   \* the Album collection: album _id -> document
    nextAlbum,\* number of Album _ids generated so far
    reqs      \* the requests received so far: position of the handler, its locals, its response

vars == <<now, blobs, audios, albums, nextAlbum, reqs>>

\* ------------------------------------------------------------------ helpers
Range(s) == {s[i] : i \in DOMAIN s}

\* The handler of request r is suspended at the await named p.
At(r, p) == r \in DOMAIN reqs /\ reqs[r].pc = p

\* res.status(code) ends the handler; the other locals stay for inspection.
Respond(rec, code) == [rec EXCEPT !.pc = "done", !.status = code]

\* The requests of the routes named in kinds.
Of(kinds) == {r \in DOMAIN reqs : reqs[r].kind \in kinds}
\* One more request of these routes may arrive.
CanStart(kinds, max) == Cardinality(Of(kinds)) < max

\* Date.now() and new Date() return t: the clock never runs backwards.
ReadClock(t) == t \in now..MaxTime /\ now' = t

\* Mongoose default for a String path: the default replaces undefined only.
Default(v, d) == IF v = Undefined THEN d ELSE v

\* ref(storage, `audio/${title}-${Date.now()}.mp3`): the key is the title and the time.
StorageKey(title, t) == <<title, t>>
\* getDownloadURL(storageRef): the public URL names the key.
DownloadURL(key) == <<"url", key>>

\* ------------------------------------------------------------------ upload
\* The multipart bodies a client sends to POST /upload.
ValidUpload ==
    [title |-> "a", artist |-> "X", artistAvatar |-> "http://a", duration |-> "180",
     album |-> Undefined, genre |-> Undefined, category |-> Undefined, file |-> TRUE]

UploadInputs ==
    { ValidUpload,
      [ValidUpload EXCEPT !.artist = "Y", !.genre = "g", !.category = "Rock"],
      [ValidUpload EXCEPT !.title = "b", !.album = "al", !.category = "Bogus"],
      [ValidUpload EXCEPT !.title = Undefined],
      [ValidUpload EXCEPT !.artist = Undefined],
      [ValidUpload EXCEPT !.artistAvatar = Undefined],
      [ValidUpload EXCEPT !.duration = Undefined],
      [ValidUpload EXCEPT !.file = FALSE] }

\* A validation that forgets the avatar.
UploadFieldsMissingNoAvatar(b) ==
    ~Truthy(b.title) \/ ~Truthy(b.artist) \/ ~Truthy(b.duration)

\* if (!title || !artist || !duration || !artistAvatar)
UploadFieldsMissing(b) ==
    ~Truthy(b.title) \/ ~Truthy(b.artist) \/ ~Truthy(b.duration) \/ ~Truthy(b.artistAvatar)

\* category = AudioCategory.OTHER in the destructuring: replaces undefined only.
UploadCategory(b) == IF b.category = Undefined THEN CategoryOther ELSE b.category

\* A document whose url is built from the title alone.
NewAudioUrlFromTitle(b, url, t) ==
    [title |-> b.title, artist |-> b.artist,
     album |-> Default(b.album, ""), genre |-> Default(b.genre, ""),
     category |-> UploadCategory(b), url |-> <<"url", <<b.title, 0>>>>,
     createdAt |-> t, playCount |-> 0]

\* new Audio({...}) with the schema defaults; createdAt defaults to Date.now.
NewAudio(b, url, t) ==
    [title |-> b.title, artist |-> b.artist,
     album |-> Default(b.album, ""), genre |-> Default(b.genre, ""),
     category |-> UploadCategory(b), url |-> url, createdAt |-> t, playCount |-> 0]

\* The local `audio` before new Audio(...) has run.
NoAudio == [title |-> Undefined]

\* Schema validation run by audio.save(): the enum validator of category.
AudioValid(doc) == doc.category \in AudioCategory

\* Lines 471-505: destructure, validate, and call uploadBytes; Date.now() returns t.
UploadBegin(b, t) ==
    /\ CanStart({"upload"}, MaxUploads)
    /\ LET rec == [kind |-> "upload", pc |-> "uploadBytes", status |-> 0, body |-> b,
                   key |-> <<>>, wrote |-> FALSE, audio |-> NoAudio, id |-> 0] IN
       IF UploadFieldsMissing(b) \/ ~b.file
       THEN reqs' = Append(reqs, Respond(rec, 400)) /\ now' = now
       ELSE /\ ReadClock(t)
            /\ reqs' = Append(reqs, [rec EXCEPT !.key = StorageKey(b.title, t)])
    /\ UNCHANGED <<blobs, audios, albums, nextAlbum>>

\* Line 505: uploadBytes resolves, the bytes are stored under the key.
UploadBytesOk(r) ==
    /\ At(r, "uploadBytes")
    /\ blobs' = [k \in DOMAIN blobs \cup {reqs[r].key} |->
                    IF k = reqs[r].key THEN r ELSE blobs[k]]
    /\ reqs' = [reqs EXCEPT ![r].pc = "getDownloadURL", ![r].wrote = TRUE]
    /\ UNCHANGED <<now, audios, albums, nextAlbum>>

\* Line 505 rejects: the catch block answers 500 (lines 532-538).
UploadBytesFail(r) ==
    /\ At(r, "uploadBytes")
    /\ reqs' = [reqs EXCEPT ![r] = Respond(@, 500)]
    /\ UNCHANGED <<now, blobs, audios, albums, nextAlbum>>

\* Lines 507-529: getDownloadURL resolves, the document is built at time t,
\* save() is called.
UploadGetURLOk(r, t) ==
    /\ At(r, "getDownloadURL")
    /\ ReadClock(t)
    /\ reqs' = [reqs EXCEPT ![r].pc = "save",
                            ![r].audio = NewAudio(reqs[r].body, DownloadURL(reqs[r].key), t)]
    /\ UNCHANGED <<blobs, audios, albums, nextAlbum>>

\* Line 507 rejects.
UploadGetURLFail(r) ==
    /\ At(r, "getDownloadURL")
    /\ reqs' = [reqs EXCEPT ![r] = Respond(@, 500)]
    /\ UNCHANGED <<now, blobs, audios, albums, nextAlbum>>

\* Lines 529-531: save() inserts the document and the handler answers 201.
UploadSaveOk(r) ==
    /\ At(r, "save") /\ reqs[r].kind = "upload"
    /\ AudioValid(reqs[r].audio)
    /\ audios' = Append(audios, reqs[r].audio)
    /\ reqs' = [reqs EXCEPT ![r] = Respond([@ EXCEPT !.id = Len(audios) + 1], 201)]
    /\ UNCHANGED <<now, blobs, albums, nextAlbum>>

\* A catch block that deletes the blob of the failed upload.
UploadSaveFailRollback(r) ==
    /\ At(r, "save") /\ reqs[r].kind = "upload"
    /\ reqs' = [reqs EXCEPT ![r] = Respond(@, 500)]
    /\ blobs' = [k \in DOMAIN blobs \ {reqs[r].key} |-> blobs[k]]
    /\ UNCHANGED <<now, audios, albums, nextAlbum>>

\* Line 529 rejects (validation error or store fault): 500, nothing is undone.
UploadSaveFail(r) ==
    /\ At(r, "save") /\ reqs[r].kind = "upload"
    /\ reqs' = [reqs EXCEPT ![r] = Respond(@, 500)]
    /\ UNCHANGED <<now, blobs, audios, albums, nextAlbum>>

\* ------------------------------------------------------------------ play
\* An increment that counts a play twice.
PlayIncrementTwice(n) == n + 2

\* Line 554: audio.playCount += 1.
PlayIncrement(n) == n + 1

\* Lines 543-555: Audio.findById(id) resolves; null answers 404, otherwise the
\* handler adds one to the playCount of its copy and calls save().
PlayFind(id) ==
    /\ CanStart({"play"}, MaxPlays)
    /\ LET rec == [kind |-> "play", pc |-> "save", status |-> 0, id |-> id,
                   playCount |-> 0] IN
       reqs' = Append(reqs,
                 IF id \notin DOMAIN audios THEN Respond(rec, 404)
                 ELSE [rec EXCEPT !.playCount = PlayIncrement(audios[id].playCount)])
    /\ UNCHANGED <<now, blobs, audios, albums, nextAlbum>>

\* A save() that writes the count as it was read.
PlayWriteStale(doc, rec) == [doc EXCEPT !.playCount = rec.playCount - 1]

\* What save() of a document whose only modified path is playCount writes.
PlayWrite(doc, rec) == [doc EXCEPT !.playCount = rec.playCount]

\* Lines 555-557: save() writes the modified path and the handler answers 200.
PlaySave(r) ==
    /\ At(r, "save") /\ reqs[r].kind = "play"
    /\ audios' = [audios EXCEPT ![reqs[r].id] = PlayWrite(@, reqs[r])]
    /\ reqs' = [reqs EXCEPT ![r] = Respond(@, 200)]
    /\ UNCHANGED <<now, blobs, albums, nextAlbum>>

\* ------------------------------------------------------------------ list
\* Query-string values are texts: sequences of characters; <<>> is the text of
\* a parameter that was not sent or sent empty.
IsDigit(c) == c \in {"0", "1", "2", "3", "4", "5", "6", "7", "8", "9"}
DigitValue(c) ==
    CASE c = "0" -> 0 [] c = "1" -> 1 [] c = "2" -> 2 [] c = "3" -> 3 [] c = "4" -> 4
      [] c = "5" -> 5 [] c = "6" -> 6 [] c = "7" -> 7 [] c = "8" -> 8 [] c = "9" -> 9

\* The value of the longest run of digits of text that starts at position i.
RECURSIVE ParseDigits(_, _, _)
ParseDigits(text, i, acc) ==
    IF i > Len(text) \/ ~IsDigit(text[i]) THEN acc
    ELSE ParseDigits(text, i + 1, acc * 10 + DigitValue(text[i]))

\* The first position of text that holds no blank.
RECURSIVE SkipBlanks(_, _)
SkipBlanks(text, i) ==
    IF i <= Len(text) /\ text[i] = " " THEN SkipBlanks(text, i + 1) ELSE i

\* parseInt(text): blanks, an optional sign, then digits; <<>> stands for NaN
\* and <<n>> for the number n.
ParseInt(text) ==
    LET i == SkipBlanks(text, 1)
        signed == i <= Len(text) /\ text[i] \in {"-", "+"}
        j == IF signed THEN i + 1 ELSE i
    IN  IF j > Len(text) \/ ~IsDigit(text[j]) THEN <<>>
        ELSE IF signed /\ text[i] = "-" THEN <<0 - ParseDigits(text, j, 0)>>
        ELSE <<ParseDigits(text, j, 0)>>

\* parseInt(...) || d: NaN and 0 are falsy.
OrDefault(parsed, d) == IF parsed = <<>> \/ parsed[1] = 0 THEN d ELSE parsed[1]

DefaultPage == 1
DefaultLimit == 10

\* Lines 571-575: a parameter is a filter when it is truthy; the documents that
\* equal every filter on its field.
Matches(doc, q) ==
    /\ Truthy(q.artist) => doc.artist = q.artist
    /\ Truthy(q.genre) => doc.genre = q.genre
    /\ Truthy(q.album) => doc.album = q.album
    /\ Truthy(q.category) => doc.category = q.category

Matching(q) == {t \in DOMAIN audios : Matches(audios[t], q)}

\* .sort({ createdAt: -1 }): the enumerations of the ids of S by creation time,
\* newest first; documents created in the same millisecond come in any order.
SortedOrders(S) ==
    {o \in [1..Cardinality(S) -> S] :
        /\ \A i, j \in DOMAIN o : i # j => o[i] # o[j]
        /\ \A i, j \in DOMAIN o : i < j => audios[o[i]].createdAt >= audios[o[j]].createdAt}

\* A skip that drops one page too many.
ListSkipOneMore(page, limit) == page * limit

\* .skip((page - 1) * limit)
ListSkip(page, limit) == (page - 1) * limit

\* .skip(n).limit(l) of a sorted result.
Slice(o, n, l) ==
    LET last == IF n + l < Len(o) THEN n + l ELSE Len(o) IN
    [i \in 1..(IF last > n THEN last - n ELSE 0) |-> o[n + i]]

\* Math.ceil(total / limit) for limit > 0.
CeilDiv(total, limit) == (total + limit - 1) \div limit

NoQuery ==
    [artist |-> Undefined, genre |-> Undefined, album |-> Undefined,
     category |-> Undefined, page |-> <<>>, limit |-> <<>>]

\* The query strings a client sends to GET /audios.
ListInputs ==
    { NoQuery,
      [NoQuery EXCEPT !.artist = "X", !.page = <<"2">>, !.limit = <<"1">>],
      [NoQuery EXCEPT !.genre = "g", !.category = "Rock", !.album = "al",
                      !.page = <<"x">>, !.limit = <<"a">>],
      [NoQuery EXCEPT !.artist = "", !.page = <<" ", "2", "x">>, !.limit = <<"0", "2">>],
      [NoQuery EXCEPT !.page = <<"-", "1">>] }

\* Lines 565-581: the parameters are parsed and Audio.find(filter).sort().skip()
\* .limit() resolves; a negative skip is rejected by the store (500).
\* A listing writes nothing, so one listing per behaviour reaches every answer
\* a listing can give.
ListFind(q) ==
    /\ Of({"list"}) = {}
    /\ LET page == OrDefault(ParseInt(q.page), DefaultPage)
           limit == OrDefault(ParseInt(q.limit), DefaultLimit)
           rec == [kind |-> "list", pc |-> "countDocuments", status |-> 0, query |-> q,
                   page |-> page, limit |-> limit, items |-> <<>>,
                   total |-> 0, totalPages |-> 0,
                   found |-> Len(audios), counted |-> 0]
       IN  IF ListSkip(page, limit) < 0
           THEN reqs' = Append(reqs, Respond(rec, 500))
           ELSE \E o \in SortedOrders(Matching(q)) :
                   reqs' = Append(reqs,
                             [rec EXCEPT !.items = Slice(o, ListSkip(page, limit), limit)])
    /\ UNCHANGED <<now, blobs, audios, albums, nextAlbum>>

\* Lines 583-590: Audio.countDocuments(filter) resolves and the page is answered.
ListCount(r) ==
    /\ At(r, "countDocuments")
    /\ LET total == Cardinality(Matching(reqs[r].query)) IN
       reqs' = [reqs EXCEPT ![r] =
                  Respond([@ EXCEPT !.total = total,
                                    !.totalPages = CeilDiv(total, reqs[r].limit),
                                    !.counted = Len(audios)], 200)]
    /\ UNCHANGED <<now, blobs, audios, albums, nextAlbum>>

\* ------------------------------------------------------------------ albums
AlbumKinds == {"albumCreate", "albumUpdate", "albumDelete"}

\* The documents Audio.find({ _id: { $in: trackIds } }) returns: one per
\* existing track whose id occurs in the list.
TracksFound(trackIds) == Range(trackIds) \cap DOMAIN audios

\* A check that accepts every list.
AllResolvedUnchecked(trackIds) == TRUE

\* if (tracks.length !== trackIds.length) -> 404 (lines 608, 668).
AllResolved(trackIds) == Cardinality(TracksFound(trackIds)) = Len(trackIds)

\* The track ids the album requests name.
AlbumTrackIds == {1, 2}

\* The JSON bodies a client sends to POST /albums; artist is a member the
\* handler does not read.
ValidAlbum ==
    [title |-> "T", genre |-> "G", artistAvatar |-> "av", releaseDate |-> NoDate,
     cover |-> Undefined, artist |-> Undefined, hasTrackIds |-> TRUE, trackIds |-> <<1>>]

\* The requests to POST /albums: the user-id header and the body.
AlbumCreateInputs ==
    { <<"u1", ValidAlbum>>,
      <<"u2", [ValidAlbum EXCEPT !.trackIds = <<2, 1>>, !.cover = "c", !.artist = "u1"]>>,
      <<"u1", [ValidAlbum EXCEPT !.trackIds = <<1, 1>>]>>,
      <<"u1", [ValidAlbum EXCEPT !.trackIds = <<>>]>>,
      <<"u1", [ValidAlbum EXCEPT !.hasTrackIds = FALSE, !.trackIds = <<>>]>>,
      <<Undefined, ValidAlbum>> }

\* A constructor that trusts the body for the artist.
NewAlbumFromBody(userId, b, t) ==
    [title |-> b.title, artist |-> Default(b.artist, userId), artistAvatar |-> b.artistAvatar,
     genre |-> b.genre,
     releaseDate |-> IF b.releaseDate # NoDate THEN b.releaseDate ELSE t,
     cover |-> Default(b.cover, ""), tracks |-> b.trackIds, version |-> 0]

\* new Album({...}) (lines 613-621) with the schema defaults.
NewAlbum(userId, b, t) ==
    [title |-> b.title, artist |-> userId, artistAvatar |-> b.artistAvatar,
     genre |-> b.genre,
     releaseDate |-> IF b.releaseDate # NoDate THEN b.releaseDate ELSE t,
     cover |-> Default(b.cover, ""), tracks |-> b.trackIds, version |-> 0]

\* The local `album` before a document was built or read.
NoAlbum == [title |-> Undefined]

\* if (!title || !genre || !artistAvatar || !trackIds || trackIds.length === 0)
AlbumFieldsMissing(b) ==
    \/ ~Truthy(b.title) \/ ~Truthy(b.genre) \/ ~Truthy(b.artistAvatar)
    \/ ~b.hasTrackIds \/ Len(b.trackIds) = 0

\* Lines 598-623 with authenticateUser (458-468): up to the call of album.save();
\* new Date() returns t.
AlbumCreateBegin(userId, b, t) ==
    /\ LET rec == [kind |-> "albumCreate", pc |-> "save", status |-> 0, userId |-> userId,
                   body |-> b, tracks |-> {}, album |-> NoAlbum, id |-> 0] IN
       IF ~Truthy(userId) THEN reqs' = Append(reqs, Respond(rec, 401)) /\ now' = now
       ELSE IF AlbumFieldsMissing(b) THEN reqs' = Append(reqs, Respond(rec, 400)) /\ now' = now
       ELSE IF ~AllResolved(b.trackIds)
       THEN /\ reqs' = Append(reqs, Respond([rec EXCEPT !.tracks = TracksFound(b.trackIds)], 404))
            /\ now' = now
       ELSE /\ IF b.releaseDate # NoDate THEN now' = now ELSE ReadClock(t)
            /\ reqs' = Append(reqs, [rec EXCEPT !.tracks = TracksFound(b.trackIds),
                                                !.album = NewAlbum(userId, b, t)])
    /\ UNCHANGED <<blobs, audios, albums, nextAlbum>>

\* Lines 623-625: save() inserts the album under a fresh _id; 201.
AlbumCreateSave(r) ==
    /\ At(r, "save") /\ reqs[r].kind = "albumCreate"
    /\ nextAlbum' = nextAlbum + 1
    /\ albums' = [a \in DOMAIN albums \cup {nextAlbum + 1} |->
                     IF a = nextAlbum + 1 THEN reqs[r].album ELSE albums[a]]
    /\ reqs' = [reqs EXCEPT ![r] = Respond([@ EXCEPT !.id = nextAlbum + 1], 201)]
    /\ UNCHANGED <<now, blobs, audios>>

\* The JSON bodies a client sends to PUT /albums/:id.
NoUpdate ==
    [title |-> Undefined, genre |-> Undefined, releaseDate |-> NoDate,
     cover |-> Undefined, hasTrackIds |-> FALSE, trackIds |-> <<>>]

\* The requests to PUT /albums/:id: the id, the user-id header and the body.
AlbumUpdateInputs ==
    { <<1, "u1", [NoUpdate EXCEPT !.title = "T2"]>>,
      <<1, "u1", [NoUpdate EXCEPT !.hasTrackIds = TRUE, !.trackIds = <<2>>]>>,
      <<1, "u1", [NoUpdate EXCEPT !.hasTrackIds = TRUE]>>,
      <<1, "u1", [NoUpdate EXCEPT !.title = "", !.genre = "G2", !.cover = "c2",
                                 !.releaseDate = 1]>>,
      <<1, "u2", [NoUpdate EXCEPT !.title = "T3", !.hasTrackIds = TRUE, !.trackIds = <<1>>]>>,
      <<1, Undefined, [NoUpdate EXCEPT !.title = "T2"]>> }

\* Field updates that assign every member that was sent, the empty string too.
ApplyFieldsSent(doc, b) ==
    [doc EXCEPT !.title = IF b.title # Undefined THEN b.title ELSE @,
                !.genre = IF b.genre # Undefined THEN b.genre ELSE @,
                !.releaseDate = IF b.releaseDate # NoDate THEN b.releaseDate ELSE @,
                !.cover = IF b.cover # Undefined THEN b.cover ELSE @]

\* Lines 675-678: a member replaces the field when it is truthy.
ApplyFields(doc, b) ==
    [doc EXCEPT !.title = IF Truthy(b.title) THEN b.title ELSE @,
                !.genre = IF Truthy(b.genre) THEN b.genre ELSE @,
                !.releaseDate = IF b.releaseDate # NoDate THEN b.releaseDate ELSE @,
                !.cover = IF Truthy(b.cover) THEN b.cover ELSE @]

\* An owner check that lets every authenticated user through.
NotOwnerNever(doc, userId) == FALSE

\* if (album.artist !== req.userId) -> 403 (lines 661, 700).
NotOwner(doc, userId) == doc.artist # userId

\* Lines 650-680 with authenticateUser: findById, the owner check and, when no
\* trackIds member was sent, the field updates up to the call of album.save().
AlbumUpdateFind(id, userId, b) ==
    /\ LET rec == [kind |-> "albumUpdate", pc |-> "findTracks", status |-> 0,
                   userId |-> userId, id |-> id, body |-> b,
                   read |-> NoAlbum, album |-> NoAlbum] IN
       reqs' = Append(reqs,
                 IF ~Truthy(userId) THEN Respond(rec, 401)
                 ELSE IF id \notin DOMAIN albums THEN Respond(rec, 404)
                 ELSE IF NotOwner(albums[id], userId) THEN Respond(rec, 403)
                 ELSE IF b.hasTrackIds
                      THEN [rec EXCEPT !.read = albums[id], !.album = albums[id]]
                 ELSE [rec EXCEPT !.pc = "save", !.read = albums[id],
                                  !.album = ApplyFields(albums[id], b)])
    /\ UNCHANGED <<now, blobs, audios, albums, nextAlbum>>

\* Lines 667-680: Audio.find resolves; 404 or the list is replaced, the fields
\* are updated and album.save() is called.
AlbumUpdateTracks(r) ==
    /\ At(r, "findTracks")
    /\ LET rec == reqs[r] IN
       reqs' = [reqs EXCEPT ![r] =
                  IF ~AllResolved(rec.body.trackIds) THEN Respond(rec, 404)
                  ELSE [rec EXCEPT !.pc = "save",
                                   !.album = ApplyFields([rec.album EXCEPT !.tracks = rec.body.trackIds],
                                                         rec.body)]]
    /\ UNCHANGED <<now, blobs, audios, albums, nextAlbum>>

\* save() of a document that was read: the paths whose value differs from the
\* value read are written, the other paths of the stored document stay; a
\* write of the tracks array increments the version key (__v).
SaveModified(stored, read, doc) ==
    [f \in DOMAIN stored |->
        IF f = "version" THEN (IF doc.tracks # read.tracks THEN stored[f] + 1 ELSE stored[f])
        ELSE IF doc[f] # read[f] THEN doc[f] ELSE stored[f]]

\* Lines 680-682: save() writes the modified paths; 200.  With nothing modified
\* save() sends nothing; with the document deleted meanwhile it rejects, and a
\* write of the tracks array rejects when the stored version key is no longer
\* the one read (500).
AlbumUpdateSave(r) ==
    /\ At(r, "save") /\ reqs[r].kind = "albumUpdate"
    /\ LET id == reqs[r].id IN
       IF reqs[r].album = reqs[r].read
       THEN /\ reqs' = [reqs EXCEPT ![r] = Respond(@, 200)]
            /\ albums' = albums
       ELSE IF id \notin DOMAIN albums
       THEN /\ reqs' = [reqs EXCEPT ![r] = Respond(@, 500)]
            /\ albums' = albums
       ELSE IF reqs[r].album.tracks # reqs[r].read.tracks
               /\ albums[id].version # reqs[r].read.version
       THEN /\ reqs' = [reqs EXCEPT ![r] = Respond(@, 500)]
            /\ albums' = albums
       ELSE /\ reqs' = [reqs EXCEPT ![r] = Respond(@, 200)]
            /\ albums' = [albums EXCEPT ![id] = SaveModified(@, reqs[r].read, reqs[r].album)]
    /\ UNCHANGED <<now, blobs, audios, nextAlbum>>

\* The requests to DELETE /albums/:id: the id and the user-id header.
AlbumDeleteInputs == {<<1, "u1">>, <<1, "u2">>, <<2, "u1">>}

\* Lines 690-705 with authenticateUser: findById and the owner check.
AlbumDeleteFind(id, userId) ==
    /\ LET rec == [kind |-> "albumDelete", pc |-> "deleteOne", status |-> 0,
                   userId |-> userId, id |-> id] IN
       reqs' = Append(reqs,
                 IF ~Truthy(userId) THEN Respond(rec, 401)
                 ELSE IF id \notin DOMAIN albums THEN Respond(rec, 404)
                 ELSE IF NotOwner(albums[id], userId) THEN Respond(rec, 403)
                 ELSE rec)
    /\ UNCHANGED <<now, blobs, audios, albums, nextAlbum>>

\* Lines 705-707: deleteOne() removes the document if it is still there; 200.
AlbumDeleteOne(r) ==
    /\ At(r, "deleteOne")
    /\ albums' = [a \in DOMAIN albums \ {reqs[r].id} |-> albums[a]]
    /\ reqs' = [reqs EXCEPT ![r] = Respond(@, 200)]
    /\ UNCHANGED <<now, blobs, audios, nextAlbum>>


\* ------------------------------------------------------------------ system
Init ==
    /\ now = 0
    /\ blobs = <<>>
    /\ audios = <<>>
    /\ albums = <<>>
    /\ nextAlbum = 0
    /\ reqs = <<>>

\* The times the clock can show at its next reading.
Times == now..MaxTime

\* Uploads and plays only, all within one millisecond: the play counter under
\* concurrent requests.
NextPlay ==
    \/ UploadBegin(ValidUpload, now)
    \/ \E r \in DOMAIN reqs : UploadBytesOk(r)
    \/ \E r \in DOMAIN reqs : UploadGetURLOk(r, now)
    \/ \E r \in DOMAIN reqs : UploadSaveOk(r)
    \/ \E id \in TrackIds : PlayFind(id)
    \/ \E r \in DOMAIN reqs : PlaySave(r)

SpecPlay == Init /\ [][NextPlay]_vars

\* Plays are issued one after the other: a play request arrives only when no
\* other play handler is suspended at its save().  Uploads still interleave.
PlayPending == {r \in DOMAIN reqs : reqs[r].kind = "play" /\ reqs[r].pc = "save"}

NextSeqPlay ==
    \/ UploadBegin(ValidUpload, now)
    \/ \E r \in DOMAIN reqs : UploadBytesOk(r)
    \/ \E r \in DOMAIN reqs : UploadGetURLOk(r, now)
    \/ \E r \in DOMAIN reqs : UploadSaveOk(r)
    \/ \E id \in TrackIds : PlayPending = {} /\ PlayFind(id)
    \/ \E r \in DOMAIN reqs : PlaySave(r)

SpecSeqPlay == Init /\ [][NextSeqPlay]_vars

\* Uploads and the three album routes, all within one millisecond; the uploads
\* are those of the tracks an album request can name.
NextAlbum ==
    \/ Cardinality(Of({"upload"})) < Cardinality(AlbumTrackIds) /\ UploadBegin(ValidUpload, now)
    \/ \E r \in DOMAIN reqs : UploadBytesOk(r)
    \/ \E r \in DOMAIN reqs : UploadGetURLOk(r, now)
    \/ \E r \in DOMAIN reqs : UploadSaveOk(r)
    \/ \E in \in AlbumCreateInputs : CanStart(AlbumKinds, MaxAlbumReqs) /\ AlbumCreateBegin(in[1], in[2], now)
    \/ \E r \in DOMAIN reqs : AlbumCreateSave(r)
    \/ \E in \in AlbumUpdateInputs : CanStart(AlbumKinds, MaxAlbumReqs) /\ AlbumUpdateFind(in[1], in[2], in[3])
    \/ \E r \in DOMAIN reqs : AlbumUpdateTracks(r)
    \/ \E r \in DOMAIN reqs : AlbumUpdateSave(r)
    \/ \E in \in AlbumDeleteInputs : CanStart(AlbumKinds, MaxAlbumReqs) /\ AlbumDeleteFind(in[1], in[2])
    \/ \E r \in DOMAIN reqs : AlbumDeleteOne(r)

SpecAlbum == Init /\ [][NextAlbum]_vars

\* The PUT /albums/:id requests of the owner of album 1 that can overlap.
OwnerUpdateInputs ==
    { <<1, "u1", [NoUpdate EXCEPT !.title = "T", !.genre = "G2"]>>,
      <<1, "u1", [NoUpdate EXCEPT !.title = "T2", !.genre = "G3"]>>,
      <<1, "u1", [NoUpdate EXCEPT !.hasTrackIds = TRUE, !.trackIds = <<2>>]>>,
      <<1, "u1", [NoUpdate EXCEPT !.title = "", !.cover = "c2", !.releaseDate = 1,
                                 !.hasTrackIds = TRUE]>> }

\* Uploads, the creation of one album and overlapping updates of it by its
\* owner, all within one millisecond.
NextUpdate ==
    \/ Cardinality(Of({"upload"})) < Cardinality(AlbumTrackIds) /\ UploadBegin(ValidUpload, now)
    \/ \E r \in DOMAIN reqs : UploadBytesOk(r)
    \/ \E r \in DOMAIN reqs : UploadGetURLOk(r, now)
    \/ \E r \in DOMAIN reqs : UploadSaveOk(r)
    \/ Of({"albumCreate"}) = {} /\ AlbumCreateBegin("u1", ValidAlbum, now)
    \/ \E r \in DOMAIN reqs : AlbumCreateSave(r)
    \/ \E in \in OwnerUpdateInputs :
          CanStart({"albumUpdate"}, MaxUpdates) /\ AlbumUpdateFind(in[1], in[2], in[3])
    \/ \E r \in DOMAIN reqs : AlbumUpdateTracks(r)
    \/ \E r \in DOMAIN reqs : AlbumUpdateSave(r)

SpecUpdate == Init /\ [][NextUpdate]_vars

\* The bodies of the uploads that are listed.
ListUploadInputs ==
    { ValidUpload,
      [ValidUpload EXCEPT !.artist = "Y", !.genre = "g", !.album = "al", !.category = "Rock"] }

\* Uploads and listings.
NextList ==
    \/ \E b \in ListUploadInputs, t \in Times : UploadBegin(b, t)
    \/ \E r \in DOMAIN reqs : UploadBytesOk(r)
    \/ \E r \in DOMAIN reqs, t \in Times : UploadGetURLOk(r, t)
    \/ \E r \in DOMAIN reqs : UploadSaveOk(r)
    \/ \E q \in ListInputs : ListFind(q)
    \/ \E r \in DOMAIN reqs : ListCount(r)

SpecList == Init /\ [][NextList]_vars

\* The whole server.
Next ==
    \/ \E b \in UploadInputs, t \in Times : UploadBegin(b, t)
    \/ \E r \in DOMAIN reqs : UploadBytesOk(r)
    \/ \E r \in DOMAIN reqs : UploadBytesFail(r)
    \/ \E r \in DOMAIN reqs, t \in Times : UploadGetURLOk(r, t)
    \/ \E r \in DOMAIN reqs : UploadGetURLFail(r)
    \/ \E r \in DOMAIN reqs : UploadSaveOk(r)
    \/ \E r \in DOMAIN reqs : UploadSaveFail(r)
    \/ \E id \in TrackIds : PlayFind(id)
    \/ \E r \in DOMAIN reqs : PlaySave(r)
    \/ \E q \in ListInputs : ListFind(q)
    \/ \E r \in DOMAIN reqs : ListCount(r)
    \/ \E in \in AlbumCreateInputs, t \in Times :
          CanStart(AlbumKinds, MaxAlbumReqs) /\ AlbumCreateBegin(in[1], in[2], t)
    \/ \E r \in DOMAIN reqs : AlbumCreateSave(r)
    \/ \E in \in AlbumUpdateInputs : CanStart(AlbumKinds, MaxAlbumReqs) /\ AlbumUpdateFind(in[1], in[2], in[3])
    \/ \E r \in DOMAIN reqs : AlbumUpdateTracks(r)
    \/ \E r \in DOMAIN reqs : AlbumUpdateSave(r)
    \/ \E in \in AlbumDeleteInputs : CanStart(AlbumKinds, MaxAlbumReqs) /\ AlbumDeleteFind(in[1], in[2])
    \/ \E r \in DOMAIN reqs : AlbumDeleteOne(r)

Spec == Init /\ [][Next]_vars

\* ------------------------------------------------------------------ claims: play
\* The play requests on track t that were answered 200.
Played(t) == {r \in DOMAIN reqs : reqs[r].kind = "play" /\ reqs[r].id = t /\ reqs[r].status = 200}
\* The play requests on track t that are still running.
Playing(t) == {r \in PlayPending : reqs[r].id = t}

\* C1 (as stated): once the k play requests issued on a track have all returned
\* 200, in whatever interleaving, the stored playCount is the initial 0 plus k.
C1_AtomicIncrement ==
    \A t \in DOMAIN audios :
        Playing(t) = {} => audios[t].playCount = Cardinality(Played(t))

\* C1 (amended): every successful play stores the count it read plus one, so the
\* stored playCount never exceeds the number of plays answered 200, and once
\* k >= 1 plays have all returned 200 it is at least 1 and at most k; the plays
\* answered 200 returned a count between 1 and k.
C1_IncrementAtMostK ==
    \A t \in DOMAIN audios :
        /\ audios[t].playCount <= Cardinality(Played(t))
        /\ Played(t) # {} => audios[t].playCount >= 1
        /\ \A r \in Played(t) : reqs[r].playCount \in 1..Cardinality(Played(t) \cup Playing(t))

\* Two interleaved plays of one track both returned 200 and one update was lost.
C1_Witness ==
    \E t \in DOMAIN audios :
        Playing(t) = {} /\ Cardinality(Played(t)) = 2 /\ audios[t].playCount = 1

\* C2: no step lowers the stored playCount of a track.
C2_PlayCountMonotonic ==
    [][\A t \in DOMAIN audios : audios'[t].playCount >= audios[t].playCount]_vars

\* C3 (state): with plays issued one after the other, the stored playCount of a track is
\* the number of plays answered 200 on it (0 for a fresh track), the j-th of
\* them returned j, a play of an existing track is never answered 404, and a
\* step that answers a play with 404 names an id of no track and changes no track.
C3_SequentialState ==
    /\ \A t \in DOMAIN audios :
          audios[t].playCount = Cardinality(Played(t))
    /\ \A r \in DOMAIN reqs :
          reqs[r].kind = "play" /\ reqs[r].pc = "done" =>
              \/ /\ reqs[r].status = 200
                 /\ reqs[r].playCount =
                        Cardinality({q \in Played(reqs[r].id) : q <= r})
              \/ reqs[r].status = 404

C3_PlayArrives ==
    Len(reqs') = Len(reqs) + 1 /\ reqs'[Len(reqs')].kind = "play"

NextUpload ==
    \/ \E b \in UploadInputs, t \in Times : UploadBegin(b, t)
    \/ \E r \in DOMAIN reqs : UploadBytesOk(r)
    \/ \E r \in DOMAIN reqs : UploadBytesFail(r)
    \/ \E r \in DOMAIN reqs, t \in Times : UploadGetURLOk(r, t)
    \/ \E r \in DOMAIN reqs : UploadGetURLFail(r)
    \/ \E r \in DOMAIN reqs : UploadSaveOk(r)
    \/ \E r \in DOMAIN reqs : UploadSaveFail(r)

SpecUpload == Init /\ [][NextUpload]_vars

\* ------------------------------------------------------------------ claims: upload
Uploads == {r \in DOMAIN reqs : reqs[r].kind = "upload"}
\* The uploads answered 201.
Uploaded == {r \in Uploads : reqs[r].status = 201}
\* The request sent no title, artist, artistAvatar or duration, or no file.
C4_Incomplete(b) ==
    \/ b.title = Undefined \/ b.artist = Undefined
    \/ b.artistAvatar = Undefined \/ b.duration = Undefined
    \/ ~b.file

\* C4: an upload without title, artist, artistAvatar or duration, or without a
\* file, is answered 400 at once and writes nothing: it wrote no blob, it
\* persisted no Track, every blob of the store was written by an upload that
\* was complete, and there are exactly as many Tracks as uploads answered 201.
C4_IncompleteUploadRejected ==
    /\ \A r \in Uploads :
          C4_Incomplete(reqs[r].body) =>
              /\ reqs[r].pc = "done" /\ reqs[r].status = 400
              /\ ~reqs[r].wrote /\ reqs[r].id = 0
    /\ \A k \in DOMAIN blobs :
          blobs[k] \in Uploads /\ ~C4_Incomplete(reqs[blobs[k]].body)
    /\ Len(audios) = Cardinality(Uploaded)

\* An incomplete upload has been answered 400 after a complete one stored its
\* blob and its Track.
C4_Witness ==
    /\ \E r \in Uploads : C4_Incomplete(reqs[r].body) /\ reqs[r].status = 400
    /\ Uploaded # {} /\ DOMAIN blobs # {}

\* C5 (state): an upload answered 201 has persisted one Track of its own, whose
\* url is the download URL of the key that request wrote, whose category is
\* Other when the request sent none; there are as many Tracks as such uploads.
C5_State ==
    /\ \A r \in Uploaded :
          /\ reqs[r].id \in DOMAIN audios
          /\ reqs[r].wrote /\ reqs[r].key \in DOMAIN blobs
          /\ audios[reqs[r].id].url = DownloadURL(reqs[r].key)
          /\ audios[reqs[r].id].title = reqs[r].body.title
          /\ reqs[r].body.category = Undefined =>
                 audios[reqs[r].id].category = "Other"
    /\ \A r, q \in Uploaded : r # q => reqs[r].id # reqs[q].id
    /\ Len(audios) = Cardinality(Uploaded)

\* C5 (step): the step that answers 201 adds exactly one Track, with playCount
\* 0, and leaves every other Track as it was.
C5_Step ==
    \A r \in DOMAIN reqs :
        reqs[r].status # 201 /\ reqs'[r].status = 201 =>
            /\ Len(audios') = Len(audios) + 1
            /\ \A t \in DOMAIN audios : audios'[t] = audios[t]
            /\ reqs'[r].id = Len(audios')
            /\ audios'[Len(audios')].playCount = 0

\* C5: every upload answered 201 persists exactly one new Track, with the URL
\* of its own blob, category Other by default and playCount 0, and touches no
\* other Track.
C5_SuccessfulUpload == []C5_State /\ [][C5_Step]_vars

\* An upload without category and one with a category were both answered 201.
C5_Witness ==
    /\ \E r \in Uploaded : reqs[r].body.category = Undefined
                            /\ audios[reqs[r].id].category = "Other"
    /\ \E r \in Uploaded : reqs[r].body.category = "Rock"

\* The uploads that wrote their blob and were then answered 500.
C10_Orphaning == {r \in Uploads : reqs[r].wrote /\ reqs[r].status = 500}
\* The blob precedes the Track, and a failed upload keeps its blob and has no Track.
C10_Order ==
    /\ \A t \in DOMAIN audios :
          \E k \in DOMAIN blobs : audios[t].url = DownloadURL(k)
    /\ \A r \in Uploads :
          (reqs[r].pc = "save" \/ reqs[r].status = 201) => reqs[r].wrote
    /\ \A r \in C10_Orphaning :
          reqs[r].key \in DOMAIN blobs /\ reqs[r].id = 0

\* C10 (as stated): moreover the blob left by an upload that failed after its
\* blob write is the one that request wrote, and no Track's url refers to it.
C10_OrphanedBlob ==
    /\ C10_Order
    /\ \A r \in C10_Orphaning :
          /\ blobs[reqs[r].key] = r
          /\ \A t \in DOMAIN audios : audios[t].url # DownloadURL(reqs[r].key)

\* C10 (amended): the blob is that request's own and referenced by no Track
\* whenever no other upload wrote the same key (same title, same millisecond).
C10_OrphanedUnlessKeyShared ==
    /\ C10_Order
    /\ \A r \in C10_Orphaning :
          (\A q \in Uploads : q # r /\ reqs[q].wrote => reqs[q].key # reqs[r].key) =>
              /\ blobs[reqs[r].key] = r
              /\ \A t \in DOMAIN audios : audios[t].url # DownloadURL(reqs[r].key)

\* An upload failed at save() after writing a blob under a key of its own, next
\* to an upload that succeeded.
C10_Witness ==
    /\ \E r \in C10_Orphaning :
          /\ reqs[r].audio # NoAudio
          /\ \A q \in Uploads : q # r => reqs[q].key # reqs[r].key
    /\ Uploaded # {}

\* ------------------------------------------------------------------ claims: albums
\* The POST /albums requests that were authenticated and sent title, genre,
\* artistAvatar and a non-empty trackIds list, and have been answered.
C6_Answered ==
    {r \in Of({"albumCreate"}) :
        /\ reqs[r].pc = "done"
        /\ Truthy(reqs[r].userId) /\ ~AlbumFieldsMissing(reqs[r].body)}

\* C6: such a request is answered 404, and persists no Album, exactly when one
\* of its track ids was the id of no Track when the handler looked them up.
C6_NotFoundIffUnknownId ==
    \A r \in C6_Answered :
        (reqs[r].status = 404 /\ reqs[r].id = 0)
            <=> (\E i \in DOMAIN reqs[r].body.trackIds :
                    reqs[r].body.trackIds[i] \notin reqs[r].tracks)

\* C7: every id in the track list of every persisted Album is the id of a Track.
C7_AlbumTracksExist ==
    \A a \in DOMAIN albums :
        \A i \in DOMAIN albums[a].tracks : albums[a].tracks[i] \in DOMAIN audios

\* An update by the owner has replaced the track list of a persisted Album.
C7_Witness ==
    \E r \in Of({"albumUpdate"}) :
        /\ reqs[r].status = 200 /\ reqs[r].body.hasTrackIds
        /\ reqs[r].id \in DOMAIN albums
        /\ albums[reqs[r].id].tracks = reqs[r].body.trackIds
        /\ albums[reqs[r].id].tracks # reqs[r].read.tracks
        /\ Len(albums[reqs[r].id].tracks) > 0

\* The POST /albums request that created album a.
C8_Creator(a) ==
    CHOOSE r \in Of({"albumCreate"}) : reqs[r].status = 201 /\ reqs[r].id = a

\* C8 (state): the artist of an Album is the user-id header of the request that
\* created it; a PUT or DELETE that got past the owner check carries that
\* identity, and one answered 403 carries another.
C8_State ==
    /\ \A a \in DOMAIN albums :
          /\ \E r \in Of({"albumCreate"}) : reqs[r].status = 201 /\ reqs[r].id = a
          /\ albums[a].artist = reqs[C8_Creator(a)].userId
          /\ Truthy(albums[a].artist)
    /\ \A r \in Of({"albumUpdate", "albumDelete"}) :
          reqs[r].status \notin {401, 404} =>
              /\ \E c \in Of({"albumCreate"}) : reqs[c].status = 201 /\ reqs[c].id = reqs[r].id
              /\ reqs[r].status = 403 <=>
                     reqs[r].userId # reqs[C8_Creator(reqs[r].id)].userId

C8_Arrives(kinds) ==
    Len(reqs') = Len(reqs) + 1 /\ reqs'[Len(reqs')].kind \in kinds

\* C8 (step): the artist of an Album never changes; an Album changes or
\* disappears only in the step that ends a PUT or DELETE carrying its artist's
\* identity; a PUT or DELETE of an existing Album by another identity is
\* answered 403 on arrival and changes no Album.
C8_Step ==
    /\ \A a \in DOMAIN albums :
          /\ a \in DOMAIN albums' => albums'[a].artist = albums[a].artist
          /\ (a \notin DOMAIN albums' \/ albums'[a] # albums[a]) =>
                \E r \in Of({"albumUpdate", "albumDelete"}) :
                    /\ reqs[r].id = a /\ reqs[r].userId = albums[a].artist
                    /\ reqs[r].pc # "done" /\ reqs'[r].pc = "done"
    /\ C8_Arrives({"albumUpdate", "albumDelete"}) =>
          LET q == reqs'[Len(reqs')] IN
          (q.id \in DOMAIN albums /\ Truthy(q.userId) /\ q.userId # albums[q.id].artist) =>
              q.pc = "done" /\ q.status = 403 /\ albums' = albums

\* C8: an Album is modified or deleted only by its owner.
C8_OwnerOnly == []C8_State /\ [][C8_Step]_vars

\* An Album created with a body naming another artist was left untouched by a
\* PUT of a non-owner, which was answered 403.
C8_Witness ==
    /\ \E c \in Of({"albumCreate"}) :
          /\ reqs[c].status = 201 /\ reqs[c].id \in DOMAIN albums
          /\ reqs[c].body.artist # Undefined
          /\ reqs[c].body.artist # reqs[c].userId
          /\ albums[reqs[c].id] = reqs[c].album
          /\ \E r \in Of({"albumUpdate"}) :
                reqs[r].id = reqs[c].id /\ reqs[r].status = 403

\* ------------------------------------------------------------------ claims: list
\* The number a page or limit text denotes; 0 when the claim says nothing of it.
C9_Number(text, default) ==
    CASE text = <<>> -> default
      [] text = <<"x">> -> default
      [] text = <<"a">> -> default
      [] text = <<"1">> -> 1
      [] text = <<"2">> -> 2
      [] text = <<"0", "2">> -> 2
      [] OTHER -> 0

C9_Supplied(v) == v # Undefined /\ v # ""

\* The Tracks of the collection the query ran on that equal every supplied filter.
C9_Matching(r) ==
    {t \in 1..reqs[r].found :
        /\ C9_Supplied(reqs[r].query.artist) => audios[t].artist = reqs[r].query.artist
        /\ C9_Supplied(reqs[r].query.genre) => audios[t].genre = reqs[r].query.genre
        /\ C9_Supplied(reqs[r].query.album) => audios[t].album = reqs[r].query.album
        /\ C9_Supplied(reqs[r].query.category) => audios[t].category = reqs[r].query.category}

C9_Min(a, b) == IF a < b THEN a ELSE b

\* The answer of listing r is the page p of size l of the matching Tracks.
C9_Page(r, p, l) ==
    LET M == C9_Matching(r)
        n == Cardinality(M)
        items == reqs[r].items
        shown == Range(items)
        rest == M \ shown
        skipped == C9_Min((p - 1) * l, n)
    IN  /\ reqs[r].status = 200 /\ reqs[r].page = p
        /\ shown \subseteq M
        /\ \A i, j \in DOMAIN items : i # j => items[i] # items[j]
        /\ Len(items) = C9_Min(l, n - skipped)
        /\ \A i, j \in DOMAIN items :
              i < j => audios[items[i]].createdAt >= audios[items[j]].createdAt
        /\ \E B \in SUBSET rest :
              /\ Cardinality(B) = skipped
              /\ \A b \in B : \A t \in shown : audios[b].createdAt >= audios[t].createdAt
              /\ \A c \in rest \ B : \A t \in shown : audios[c].createdAt <= audios[t].createdAt
        /\ reqs[r].total = n
        /\ reqs[r].totalPages * l >= n /\ (reqs[r].totalPages - 1) * l < n

C11_Supplied(v) == v # Undefined /\ v # ""

\* Request r is answered with this status in the step.
C11_Answered(r, code) ==
    reqs[r].pc # "done" /\ reqs'[r].pc = "done" /\ reqs'[r].status = code

\* The Album the claim describes after a PUT with body b of an Album that was
\* prev: supplied members replace, the others and artist, artistAvatar stay.
C11_Replaced(prev, b) ==
    [prev EXCEPT !.title = IF C11_Supplied(b.title) THEN b.title ELSE @,
                 !.genre = IF C11_Supplied(b.genre) THEN b.genre ELSE @,
                 !.releaseDate = IF b.releaseDate # NoDate THEN b.releaseDate ELSE @,
                 !.cover = IF C11_Supplied(b.cover) THEN b.cover ELSE @,
                 !.tracks = IF b.hasTrackIds THEN b.trackIds ELSE @]

\* The fields of an Album document; the version key is the store's own.
C11_Fields(doc) == [f \in DOMAIN doc \ {"version"} |-> doc[f]]

\* The same, where a supplied value equal to the value the handler read at
\* findById is not written.
C11_Written(prev, read, b) ==
    [prev EXCEPT !.title = IF C11_Supplied(b.title) /\ b.title # read.title THEN b.title ELSE @,
                 !.genre = IF C11_Supplied(b.genre) /\ b.genre # read.genre THEN b.genre ELSE @,
                 !.releaseDate = IF b.releaseDate # NoDate /\ b.releaseDate # read.releaseDate
                                 THEN b.releaseDate ELSE @,
                 !.cover = IF C11_Supplied(b.cover) /\ b.cover # read.cover THEN b.cover ELSE @,
                 !.tracks = IF b.hasTrackIds /\ b.trackIds # read.tracks THEN b.trackIds ELSE @]

\* The step that answers a PUT with 200 leaves every Track, the set of Albums
\* and every other Album as they were, and leaves the Album of the PUT as the
\* claim describes it.
C11_Effect ==
    \A r \in Of({"albumUpdate"}) :
        C11_Answered(r, 200) =>
            /\ audios' = audios
            /\ DOMAIN albums' = DOMAIN albums
            /\ \A a \in DOMAIN albums :
                  IF a = reqs[r].id
                  THEN C11_Fields(albums'[a]) = C11_Fields(C11_Replaced(albums[a], reqs[r].body))
                  ELSE albums'[a] = albums[a]

C11_EffectWritten ==
    \A r \in Of({"albumUpdate"}) :
        C11_Answered(r, 200) =>
            /\ audios' = audios
            /\ DOMAIN albums' = DOMAIN albums
            /\ \A a \in DOMAIN albums :
                  IF a = reqs[r].id
                  THEN C11_Fields(albums'[a])
                          = C11_Fields(C11_Written(albums[a], reqs[r].read, reqs[r].body))
                  ELSE albums'[a] = albums[a]

\* When the lookup of a supplied trackIds list resolves and an id of the list
\* is the id of no Track, the PUT is answered 404 and no Album changes; a PUT
\* that is not answered in a step changes no Album and no Track.
C11_NotFound ==
    \A r \in Of({"albumUpdate"}) :
        /\ (/\ At(r, "findTracks") /\ reqs'[r] # reqs[r]
            /\ \E i \in DOMAIN reqs[r].body.trackIds :
                  reqs[r].body.trackIds[i] \notin DOMAIN audios)
              => C11_Answered(r, 404) /\ albums' = albums /\ audios' = audios
        /\ (reqs'[r] # reqs[r] /\ ~C11_Answered(r, 200))
              => albums' = albums /\ audios' = audios

C12_AlbumTracksNonEmpty ==
    /\ \A r \in Of({"albumCreate"}) :
          (/\ reqs[r].pc = "done" /\ Truthy(reqs[r].userId)
           /\ (~reqs[r].body.hasTrackIds \/ Len(reqs[r].body.trackIds) = 0))
              => reqs[r].status = 400 /\ reqs[r].id = 0
    /\ \A a \in DOMAIN albums : Len(albums[a].tracks) > 0

====
